---- MODULE Spec2Model ----
(***************************************************************************)
(* Model of the homeless-assistant backend:                                *)
(*   backend/tools/search_tool.py  get_location_name, perform_web_search   *)
(*   backend/chatbot.py            get_chatbot_response                    *)
(*   backend/main.py               end_conversation, websocket_endpoint    *)
(*                                                                         *)
(* Python values: None is the empty tuple <<>> and a present value v is    *)
(* <<v>> (Optional); a str is a TLA+ string, falsy exactly when it is "".  *)
(***************************************************************************)
EXTENDS Integers, Sequences, FiniteSets, TLC

(***************************************************************************)
(* Bounds of the model.                                                    *)
(***************************************************************************)
MaxResultsBound == 3
MaxTopics == 3
MaxHistory == 2
MaxStored == 4
MaxClock == 2

(***************************************************************************)
(* Python helpers.                                                         *)
(***************************************************************************)
None == <<>>
Some(v) == <<v>>
IsNone(o) == o = <<>>
Val(o) == o[1]

Truthy(s) == s # ""

\* Python's `a or b` on str values
Or(a, b) == IF Truthy(a) THEN a ELSE b

Digit(d) == SubSeq("0123456789", d + 1, d + 1)

RECURSIVE NatStr(_)
NatStr(n) == IF n < 10 THEN Digit(n) ELSE NatStr(n \div 10) \o Digit(n % 10)

\* str() of a float holding a whole number of degrees: 32.0 -> "32.0"
FloatStr(x) == (IF x < 0 THEN "-" \o NatStr(0 - x) ELSE NatStr(x)) \o ".0"

\* `sep in s`: position of the first occurrence of sep in s, 0 when absent
RECURSIVE FindFrom(_, _, _)
FindFrom(s, sep, i) ==
    IF i + Len(sep) - 1 > Len(s) THEN 0
    ELSE IF SubSeq(s, i, i + Len(sep) - 1) = sep THEN i
    ELSE FindFrom(s, sep, i + 1)

Contains(s, sep) == FindFrom(s, sep, 1) # 0

\* s.split(sep)[0]
SplitFirst(s, sep) ==
    IF Contains(s, sep) THEN SubSeq(s, 1, FindFrom(s, sep, 1) - 1) ELSE s

\* urllib.parse.quote on the characters the model's queries are made of
QuoteChar(c) ==
    IF c = " " THEN "%20" ELSE IF c = "," THEN "%2C" ELSE c

RECURSIVE Quote(_)
Quote(s) ==
    IF Len(s) = 0 THEN "" ELSE QuoteChar(SubSeq(s, 1, 1)) \o Quote(Tail(s))

\* seq[:k] for k >= 0
Take(seq, k) == SubSeq(seq, 1, IF k < Len(seq) THEN k ELSE Len(seq))

(***************************************************************************)
(* Inputs and outcomes of the external calls of search_tool.py.            *)
(***************************************************************************)
Queries == {"food banks", "shelters"}
Coordinates == {-117, 0}
OptCoordinates == {None} \cup {Some(c) : c \in Coordinates}
MaxResultsValues == 0 .. MaxResultsBound

\* address documents of the reverse geocoder ("" : key absent or null)
Addresses ==
    [city : {"", "Springfield"}, town : {"", "Avon"}, village : {""},
     state : {"", "IL"}, country : {"", "USA"}]

\* outcome of requests.get(...) + response.json() of the reverse geocoder
GeoOutcomes ==
    {[kind |-> "raise", status |-> 0, address |-> CHOOSE a \in Addresses : a.city = "" /\ a.town = "" /\ a.state = "" /\ a.country = ""]}
    \cup [kind : {"badjson"}, status : {200},
          address : {a \in Addresses : a.city = "" /\ a.town = "" /\ a.state = "" /\ a.country = ""}]
    \cup [kind : {"http"}, status : {500},
          address : {a \in Addresses : a.city = "" /\ a.town = "" /\ a.state = "" /\ a.country = ""}]
    \cup [kind : {"http"}, status : {200}, address : Addresses]

\* related topics of the instant-answer document: a dict with Text, a dict
\* without Text (a topic group), or a value that is not a dict
Topics ==
    {[isdict |-> TRUE, hasText |-> TRUE, Text |-> "Shelter A - beds", FirstURL |-> "u1"],
     [isdict |-> TRUE, hasText |-> TRUE, Text |-> "Food pantry", FirstURL |-> "u2"],
     [isdict |-> TRUE, hasText |-> FALSE, Text |-> "", FirstURL |-> ""],
     [isdict |-> FALSE, hasText |-> FALSE, Text |-> "", FirstURL |-> ""]}

TopicLists == UNION {[1 .. n -> Topics] : n \in 0 .. MaxTopics}

\* instant-answer JSON documents
Documents ==
    [Abstract : {"", "About shelters"}, Heading : {None, Some("Shelters")},
     AbstractURL : {"ua"}, RelatedTopics : TopicLists]

EmptyDocument ==
    [Abstract |-> "", Heading |-> None, AbstractURL |-> "ua", RelatedTopics |-> <<>>]

\* outcome of the instant-answer call: the request raises (network error,
\* timeout), the body is not JSON, the JSON is not an object, or a document
InstantOutcomes ==
    [kind : {"raise", "badjson", "nondict"}, data : {EmptyDocument}]
    \cup [kind : {"ok"}, data : Documents]

(***************************************************************************)
(* search_tool.py                                                          *)
(***************************************************************************)
\* get_location_name: the place name for a geocoder outcome, or None
get_location_name(geo) ==
    IF geo.kind = "http" /\ geo.status = 200
    THEN LET address == geo.address
             city == Or(Or(address.city, address.town), address.village)
             state == address.state
             country == address.country
         IN  IF Truthy(city) /\ Truthy(state) THEN Some(city \o ", " \o state)
             ELSE IF Truthy(city) /\ Truthy(country) THEN Some(city \o ", " \o country)
             ELSE IF Truthy(city) THEN Some(city)
             ELSE None
    ELSE None

\* a location test by truthiness, which takes the coordinate 0.0 for absent
HasLocationTruthy(latitude, longitude) ==
    /\ ~IsNone(latitude) /\ Val(latitude) # 0
    /\ ~IsNone(longitude) /\ Val(longitude) # 0

\* whether perform_web_search consults the geocoder
HasLocation(latitude, longitude) == ~IsNone(latitude) /\ ~IsNone(longitude)

\* enhanced_query once get_location_name has returned location_name
EnhanceQuery(query, latitude, longitude, location_name) ==
    IF HasLocation(latitude, longitude)
    THEN IF ~IsNone(location_name) /\ Truthy(Val(location_name))
         THEN query \o " near " \o Val(location_name)
         ELSE query \o " near " \o FloatStr(Val(latitude)) \o "," \o FloatStr(Val(longitude))
    ELSE query

AbstractResult(doc) ==
    [title |-> IF IsNone(doc.Heading) THEN "Result" ELSE Val(doc.Heading),
     snippet |-> doc.Abstract,
     url |-> doc.AbstractURL]

TopicResult(topic) ==
    [title |-> IF Contains(topic.Text, " - ") THEN SplitFirst(topic.Text, " - ") ELSE "Related",
     snippet |-> topic.Text,
     url |-> topic.FirstURL]

RECURSIVE TopicResults(_)
TopicResults(topics) ==
    IF topics = <<>> THEN <<>>
    ELSE (IF Head(topics).isdict /\ Head(topics).hasText
          THEN <<TopicResult(Head(topics))>> ELSE <<>>)
         \o TopicResults(Tail(topics))

\* a list that puts the related topics before the abstract
CollectResultsTopicsFirst(doc, max_results) ==
    TopicResults(Take(doc.RelatedTopics, max_results))
    \o (IF Truthy(doc.Abstract) THEN <<AbstractResult(doc)>> ELSE <<>>)

\* the list `results` built from the document
CollectResults(doc, max_results) ==
    (IF Truthy(doc.Abstract) THEN <<AbstractResult(doc)>> ELSE <<>>)
    \o TopicResults(Take(doc.RelatedTopics, max_results))

\* a placeholder whose link carries the query as it is
PlaceholderResultUnquoted(enhanced) ==
    [title |-> "Search Info",
     snippet |-> "Search query: " \o enhanced \o ". For better results, try searching online directly or contact local 211 services.",
     url |-> "https://duckduckgo.com/?q=" \o enhanced]

PlaceholderResult(enhanced) ==
    [title |-> "Search Info",
     snippet |-> "Search query: " \o enhanced \o ". For better results, try searching online directly or contact local 211 services.",
     url |-> "https://duckduckgo.com/?q=" \o Quote(enhanced)]

FallbackResult(enhanced) ==
    [title |-> "Search Unavailable",
     snippet |-> "Unable to search at this time. Try: Call 211 for local resources, or visit https://www.211.org",
     url |-> "https://www.211.org"]

\* a return statement that forgets the final truncation
SelectResultsUntruncated(results, max_results, enhanced) ==
    IF results # <<>> THEN results
    ELSE <<PlaceholderResult(enhanced)>>

\* the return statement of the try block
SelectResults(results, max_results, enhanced) ==
    IF results # <<>> THEN Take(results, max_results)
    ELSE <<PlaceholderResult(enhanced)>>

\* an except clause that lets the failure through
SearchExceptReraise(enhanced) ==
    [kind |-> "raise", value |-> <<>>]

\* the except clause of perform_web_search
SearchExcept(enhanced) ==
    [kind |-> "return", value |-> <<FallbackResult(enhanced)>>]

\* what perform_web_search returns for the outcome of the instant-answer call
SearchReturnValue(out, max_results, enhanced) ==
    IF out.kind = "ok"
    THEN [kind |-> "return",
          value |-> SelectResults(CollectResults(out.data, max_results), max_results, enhanced)]
    ELSE SearchExcept(enhanced)

(***************************************************************************)
(* chatbot.py: the capability declarations and the model boundary.         *)
(***************************************************************************)
\* FunctionDeclaration(name, parameters.required)
get_location_func == [name |-> "request_user_location", required |-> {"reason"}]
search_web_func == [name |-> "search_web", required |-> {"query"}]

\* Tool(function_declarations=[get_location_func])
location_tool == {get_location_func}

UserContents == {"I need a shelter tonight", "where am I?"}
AssistantContents == {"Call 211."}
ChatMessages ==
    [role : {"user"}, content : UserContents]
    \cup [role : {"assistant"}, content : AssistantContents]
MessageLists == UNION {[1 .. n -> ChatMessages] : n \in 0 .. MaxHistory + 1}

\* parts of a model response: text, or a function call with its arguments
\* (args: argument name -> value; the model may leave a required one out)
TextPart(t) == [kind |-> "text", text |-> t, name |-> "", args |-> [a \in {} |-> ""]]
CallPart(n, a) == [kind |-> "function_call", text |-> "", name |-> n, args |-> a]
ReasonArg(r) == [a \in {"reason"} |-> r]
QueryArg(q) == [a \in {"query"} |-> q]
NoArg == [a \in {} |-> ""]

ModelParts ==
    {TextPart("Here are shelters near you."),
     CallPart("request_user_location", ReasonArg("to find nearby shelters")),
     CallPart("request_user_location", ReasonArg("to reach \"home\"")),
     CallPart("request_user_location", NoArg),
     CallPart("search_web", QueryArg("homeless shelters")),
     CallPart("delete_user", NoArg)}

\* a response: no candidate at all, or one candidate with a list of parts
ModelResponses ==
    {[candidates |-> 0, parts |-> <<>>]}
    \cup [candidates : {1}, parts : UNION {[1 .. n -> ModelParts] : n \in 0 .. 2}]

ModelErrors == {"503 Service Unavailable", "Deadline Exceeded"}

\* outcome of chat.send_message: it raises, or it returns a response
SendOutcomes ==
    [kind : {"raise"}, error : ModelErrors, response : {[candidates |-> 0, parts |-> <<>>]}]
    \cup [kind : {"ok"}, error : {""}, response : ModelResponses]

\* outcome of a replayed send_message, whose response is discarded
ReplayOutcomes ==
    {o \in SendOutcomes : o.kind = "raise" \/ o.response = [candidates |-> 0, parts |-> <<>>]}

\* the outcomes drawn for the turns the websocket tasks run
TaskSendOutcomes ==
    {o \in SendOutcomes :
        \/ o.kind = "raise" /\ o.error = "503 Service Unavailable"
        \/ o.kind = "ok" /\ o.response.parts = <<TextPart("Here are shelters near you.")>>
        \/ o.kind = "ok" /\ o.response.parts =
               <<CallPart("request_user_location", ReasonArg("to find nearby shelters"))>>}

TaskReplayOutcomes ==
    {o \in ReplayOutcomes : o.kind = "ok" \/ o.error = "503 Service Unavailable"}

\* the payloads the websocket clients send
Payloads == {"I need a shelter tonight"}

\* outcome of GenerativeModel(...) and model.start_chat()
ConstructOutcomes == {"", "Vertex AI is not initialized"}

(***************************************************************************)
(* json.dumps of a dict of str values, and its inverse.                    *)
(***************************************************************************)
Backslash == SubSeq("\\", 1, 1)
DQuote == SubSeq("\"", 1, 1)

EscapeChar(c) == IF c = DQuote \/ c = Backslash THEN Backslash \o c ELSE c

\* the escaped form of str, by halves to keep the recursion shallow
RECURSIVE JsonEscape(_)
JsonEscape(str) ==
    IF Len(str) = 0 THEN ""
    ELSE IF Len(str) = 1 THEN EscapeChar(str)
    ELSE JsonEscape(SubSeq(str, 1, Len(str) \div 2))
         \o JsonEscape(SubSeq(str, Len(str) \div 2 + 1, Len(str)))

JsonString(str) == DQuote \o JsonEscape(str) \o DQuote

\* pairs: a sequence of <<key, value>>, in insertion order
RECURSIVE JsonMembers(_)
JsonMembers(pairs) ==
    IF pairs = <<>> THEN ""
    ELSE JsonString(pairs[1][1]) \o ": " \o JsonString(pairs[1][2])
         \o (IF Len(pairs) > 1 THEN ", " ELSE "") \o JsonMembers(Tail(pairs))

JsonDumps(pairs) == "{" \o JsonMembers(pairs) \o "}"

\* the first position from i on that holds a quote or a backslash, 0 if none
NextSpecial(str, i) ==
    LET at == {k \in i .. Len(str) : SubSeq(str, k, k) \in {DQuote, Backslash}}
    IN  IF at = {} THEN 0 ELSE CHOOSE k \in at : \A h \in at : k <= h

\* the string literal whose opening quote is just before position i
RECURSIVE ScanString(_, _, _)
ScanString(str, i, acc) ==
    LET k == NextSpecial(str, i)
    IN  IF k = 0 THEN [ok |-> FALSE, val |-> "", next |-> i]
        ELSE IF SubSeq(str, k, k) = DQuote
             THEN [ok |-> TRUE, val |-> acc \o SubSeq(str, i, k - 1), next |-> k + 1]
             ELSE IF k + 1 > Len(str) THEN [ok |-> FALSE, val |-> "", next |-> i]
                  ELSE ScanString(str, k + 2, acc \o SubSeq(str, i, k - 1) \o SubSeq(str, k + 1, k + 1))

\* the members of an object from position i on, None when str is not one
RECURSIVE ParseMembers(_, _, _)
ParseMembers(str, i, acc) ==
    IF SubSeq(str, i, i) # DQuote THEN None
    ELSE LET k == ScanString(str, i + 1, "")
         IN  IF ~k.ok \/ SubSeq(str, k.next, k.next + 2) # (": " \o DQuote) THEN None
             ELSE LET v == ScanString(str, k.next + 3, "")
                      got == Append(acc, <<k.val, v.val>>)
                  IN  IF ~v.ok THEN None
                      ELSE IF SubSeq(str, v.next, Len(str)) = "}" THEN Some(got)
                      ELSE IF SubSeq(str, v.next, v.next + 1) = ", "
                           THEN ParseMembers(str, v.next + 2, got)
                           ELSE None

\* json.loads restricted to flat objects of strings
JsonLoads(str) ==
    IF Len(str) >= 2 /\ SubSeq(str, 1, 1) = "{" THEN ParseMembers(str, 2, <<>>) ELSE None

(***************************************************************************)
(* chatbot.py: get_chatbot_response                                        *)
(***************************************************************************)
Returned(v) == [kind |-> "return", value |-> v, error |-> ""]
Raised(e) == [kind |-> "raise", value |-> "", error |-> e]

Greeting == "Hello! I'm here to help. How can I assist you today?"

\* response.text of the SDK: the text of the single text part of the single
\* candidate, ValueError / AttributeError otherwise
ResponseText(response) ==
    IF response.candidates = 0 THEN Raised("Response has no candidates")
    ELSE IF Len(response.parts) = 0 THEN Raised("Response candidate content has no parts")
    ELSE IF Len(response.parts) > 1 THEN Raised("Multiple content parts are not supported.")
    ELSE IF response.parts[1].kind # "text" THEN Raised("Response candidate content part has no text.")
    ELSE Returned(response.parts[1].text)

\* a lookup that ignores the argument
ReasonOfDefault(part) == "to assist you better"

\* function_call.args.get("reason", "to assist you better")
ReasonOf(part) ==
    IF "reason" \in DOMAIN part.args THEN part.args["reason"] ELSE "to assist you better"

\* the special response of lines 183-187
LocationRequest(reason) ==
    JsonDumps(<<
        <<"type", "request_location">>,
        <<"reason", reason>>,
        <<"message", "I'd like to help you find nearby resources. May I access your location "
                        \o reason \o "?">> >>)

\* the parts the loop of lines 175-187 returns on
IsLocationCall(part) ==
    part.kind = "function_call" /\ part.name = "request_user_location"

\* lines 174-189: what the try block does with the response to the last message
InspectResponse(response) ==
    IF response.candidates > 0
       /\ \E i \in 1 .. Len(response.parts) : IsLocationCall(response.parts[i])
    THEN LET i == CHOOSE j \in 1 .. Len(response.parts) :
                     /\ IsLocationCall(response.parts[j])
                     /\ \A h \in 1 .. j - 1 : ~IsLocationCall(response.parts[h])
         IN  Returned(LocationRequest(ReasonOf(response.parts[i])))
    ELSE ResponseText(response)

\* an except clause that lets the failure through
TurnExceptReraise(e) == Raised(e)

\* lines 193-197: the except clause
TurnExcept(e) ==
    Returned("I apologize, but I'm having trouble connecting right now. Error: " \o e)

\* the try block's outcome passed through the except clause
Caught(outcome) == IF outcome.kind = "raise" THEN TurnExcept(outcome.error) ELSE outcome

VARIABLES
    s_pc,            \* position in perform_web_search
    s_args,          \* its arguments
    s_geo,           \* outcome of the reverse-geocoding call, None when not made
    enhanced_query,  \* the local enhanced_query
    s_requests,      \* the search-backend requests issued so far
    s_backend,       \* outcome of the last search-backend call
    data,            \* the parsed instant-answer document (the local data)
    s_ret,           \* what the call handed to its caller
    t_pc,            \* position in get_chatbot_response
    t_caller,        \* the websocket task that awaits the turn, None for a direct call
    messages,        \* its argument
    t_idx,           \* index of the next message of the replay loop
    t_sent,          \* the inputs submitted to the chat session, in order
    t_response,      \* the response to the last message, None when there is none
    t_failed,        \* where the try block raised: "" when it did not
    t_ret,           \* what the call handed to its caller
    conversations,   \* the Conversation rows, by id
    db_messages,     \* the Message rows, in commit order
    now,             \* the clock ended_at and the Message timestamps are read from
    ws               \* the websocket tasks: position and locals of websocket_endpoint

searchVars == <<s_pc, s_args, s_geo, enhanced_query, s_requests, s_backend, data, s_ret>>
turnVars == <<t_pc, t_caller, messages, t_idx, t_sent, t_response, t_failed, t_ret>>
gatewayVars == <<conversations, db_messages, now, ws>>
vars == <<searchVars, turnVars, gatewayVars>>

NoArgs == [query |-> "", max_results |-> 0, latitude |-> None, longitude |-> None]
NoReturn == [kind |-> "none", value |-> <<>>]

SearchInit ==
    /\ s_pc = "idle"
    /\ s_args = NoArgs
    /\ s_geo = None
    /\ enhanced_query = ""
    /\ s_requests = <<>>
    /\ s_backend = "none"
    /\ data = EmptyDocument
    /\ s_ret = NoReturn

NoTurnReturn == [kind |-> "none", value |-> "", error |-> ""]

TurnInit ==
    /\ t_pc = "idle"
    /\ t_caller = None
    /\ messages = <<>>
    /\ t_idx = 1
    /\ t_sent = <<>>
    /\ t_response = None
    /\ t_failed = ""
    /\ t_ret = NoTurnReturn

ConvIds == 1 .. 2
Sockets == 1 .. 2

NoRow == [exists |-> FALSE, ended_at |-> None, report |-> None]
\* a websocket task: the position and the locals of websocket_endpoint, with
\* the client's end of the channel (connected: the client has not gone away,
\* received: the payloads taken from it, outbox: the payloads delivered to it)
\* and unhandled: an exception left websocket_endpoint
NoSocket ==
    [pc |-> "closed", conversation_id |-> 0, message_history |-> <<>>,
     assistant_response |-> "", outbox |-> <<>>, unhandled |-> FALSE,
     connected |-> FALSE, received |-> <<>>]

GatewayInit ==
    /\ conversations = [c \in ConvIds |-> NoRow]
    /\ db_messages = <<>>
    /\ now = 0
    /\ ws = [w \in Sockets |-> NoSocket]

Init == SearchInit /\ TurnInit /\ GatewayInit

\* perform_web_search(query, max_results, latitude, longitude) is entered
SearchCall ==
    /\ s_pc = "idle"
    /\ \E q \in Queries, k \in MaxResultsValues, lat \in OptCoordinates, lon \in OptCoordinates :
         /\ s_args' = [query |-> q, max_results |-> k, latitude |-> lat, longitude |-> lon]
         /\ enhanced_query' = q
         /\ s_pc' = IF HasLocation(lat, lon) THEN "geocode" ELSE "html"
    /\ s_geo' = None
    /\ s_requests' = <<>>
    /\ s_backend' = "none"
    /\ data' = EmptyDocument
    /\ s_ret' = NoReturn
    /\ UNCHANGED <<turnVars, gatewayVars>>

\* lines 95-103: get_location_name and the rewriting of the query
SearchGeocode ==
    /\ s_pc = "geocode"
    /\ \E geo \in GeoOutcomes :
         /\ s_geo' = Some(geo)
         /\ enhanced_query' = EnhanceQuery(s_args.query, s_args.latitude, s_args.longitude,
                                           get_location_name(geo))
    /\ s_pc' = "html"
    /\ UNCHANGED <<s_args, s_requests, s_backend, data, s_ret, turnVars, gatewayVars>>

\* lines 106-119: the request to the HTML endpoint, whose answer is not used
SearchHtmlGet ==
    /\ s_pc = "html"
    /\ s_requests' = Append(s_requests, [url |-> "https://html.duckduckgo.com/html/", q |-> enhanced_query])
    /\ \E ok \in BOOLEAN :
         IF ok
         THEN /\ s_backend' = "ok"
              /\ s_pc' = "instant"
              /\ s_ret' = s_ret
         ELSE /\ s_backend' = "raise"
              /\ s_pc' = "done"
              /\ s_ret' = SearchExcept(enhanced_query)
    /\ UNCHANGED <<s_args, s_geo, enhanced_query, data, turnVars, gatewayVars>>

\* lines 122-168: the instant-answer request and the construction of the result
SearchInstantGet ==
    /\ s_pc = "instant"
    /\ s_requests' = Append(s_requests, [url |-> "https://api.duckduckgo.com/", q |-> enhanced_query])
    /\ \E out \in InstantOutcomes :
         /\ s_backend' = out.kind
         /\ data' = out.data
         /\ s_ret' = SearchReturnValue(out, s_args.max_results, enhanced_query)
    /\ s_pc' = "done"
    /\ UNCHANGED <<s_args, s_geo, enhanced_query, turnVars, gatewayVars>>

\* the caller has the result and the locals of the call are gone
SearchDone ==
    /\ s_pc = "done"
    /\ s_pc' = "idle"
    /\ s_args' = NoArgs
    /\ s_geo' = None
    /\ enhanced_query' = ""
    /\ s_requests' = <<>>
    /\ s_backend' = "none"
    /\ data' = EmptyDocument
    /\ s_ret' = NoReturn
    /\ UNCHANGED <<turnVars, gatewayVars>>

SearchNext ==
    \/ SearchCall
    \/ SearchGeocode
    \/ SearchHtmlGet
    \/ SearchInstantGet
    \/ SearchDone

SpecSearch == Init /\ [][SearchNext]_vars

(***************************************************************************)
(* get_chatbot_response as a state machine: one step per call that leaves  *)
(* the process (model construction, each send_message).                    *)
(***************************************************************************)
\* get_chatbot_response(messages) is called directly
TurnCall ==
    /\ t_pc = "idle"
    /\ \E m \in MessageLists : messages' = m
    /\ t_pc' = "construct"
    /\ t_caller' = None
    /\ t_idx' = 1
    /\ t_sent' = <<>>
    /\ t_response' = None
    /\ t_failed' = ""
    /\ t_ret' = NoTurnReturn
    /\ UNCHANGED <<searchVars, gatewayVars>>

\* lines 139-146: GenerativeModel(...) and model.start_chat()
TurnConstruct ==
    /\ t_pc = "construct"
    /\ \E e \in ConstructOutcomes :
         IF e = ""
         THEN /\ t_pc' = "replay"
              /\ UNCHANGED <<t_failed, t_ret>>
         ELSE /\ t_pc' = "done"
              /\ t_failed' = "construct"
              /\ t_ret' = Caught(Raised(e))
    /\ UNCHANGED <<t_caller, messages, t_idx, t_sent, t_response, searchVars, gatewayVars>>

TurnReplaySkipAsInput ==
    /\ t_pc = "replay"
    /\ t_idx < Len(messages)
    /\ messages[t_idx].role # "user"
    /\ t_idx' = t_idx + 1
    /\ t_sent' = Append(t_sent, [content |-> messages[t_idx].content, index |-> t_idx])
    /\ UNCHANGED <<t_pc, t_caller, messages, t_response, t_failed, t_ret,
                   searchVars, gatewayVars>>

\* lines 149-150: the replay loop passes over an assistant message
TurnReplaySkip ==
    /\ t_pc = "replay"
    /\ t_idx < Len(messages)
    /\ messages[t_idx].role # "user"
    /\ t_idx' = t_idx + 1
    /\ UNCHANGED <<t_pc, t_caller, messages, t_sent, t_response, t_failed, t_ret,
                   searchVars, gatewayVars>>

\* lines 149-152: the replay loop sends a prior user message to the model
TurnReplaySend ==
    /\ t_pc = "replay"
    /\ t_idx < Len(messages)
    /\ messages[t_idx].role = "user"
    /\ t_sent' = Append(t_sent, [content |-> messages[t_idx].content, index |-> t_idx])
    /\ \E o \in (IF t_caller = None THEN ReplayOutcomes ELSE TaskReplayOutcomes) :
         IF o.kind = "raise"
         THEN /\ t_pc' = "done"
              /\ t_failed' = "replay"
              /\ t_ret' = Caught(Raised(o.error))
              /\ t_idx' = t_idx
         ELSE /\ t_idx' = t_idx + 1
              /\ UNCHANGED <<t_pc, t_failed, t_ret>>
    /\ UNCHANGED <<t_caller, messages, t_response, searchVars, gatewayVars>>

\* a last step without the test of line 156: messages[-1] of an empty list
\* raises IndexError, and a list with messages is sent as in TurnFinal
TurnFinalUnguarded ==
    /\ t_pc = "replay"
    /\ t_idx >= Len(messages)
    /\ IF messages = <<>>
       THEN /\ t_ret' = Caught(Raised("list index out of range"))
            /\ t_failed' = "final"
            /\ UNCHANGED <<t_sent, t_response>>
       ELSE /\ t_sent' = Append(t_sent, [content |-> messages[Len(messages)].content,
                                         index |-> Len(messages)])
            /\ \E o \in (IF t_caller = None THEN SendOutcomes ELSE TaskSendOutcomes) :
                 IF o.kind = "raise"
                 THEN /\ t_failed' = "final"
                      /\ t_ret' = Caught(Raised(o.error))
                      /\ t_response' = None
                 ELSE /\ t_response' = Some(o.response)
                      /\ t_failed' = IF InspectResponse(o.response).kind = "raise"
                                     THEN "text" ELSE ""
                      /\ t_ret' = Caught(InspectResponse(o.response))
    /\ t_pc' = "done"
    /\ UNCHANGED <<t_caller, messages, t_idx, searchVars, gatewayVars>>

\* lines 156-191: the last message is sent and the response is inspected, or
\* the greeting is returned for an empty list
TurnFinal ==
    /\ t_pc = "replay"
    /\ t_idx >= Len(messages)
    /\ IF messages = <<>>
       THEN /\ t_ret' = Returned(Greeting)
            /\ UNCHANGED <<t_sent, t_response, t_failed>>
       ELSE /\ t_sent' = Append(t_sent, [content |-> messages[Len(messages)].content,
                                         index |-> Len(messages)])
            /\ \E o \in (IF t_caller = None THEN SendOutcomes ELSE TaskSendOutcomes) :
                 IF o.kind = "raise"
                 THEN /\ t_failed' = "final"
                      /\ t_ret' = Caught(Raised(o.error))
                      /\ t_response' = None
                 ELSE /\ t_response' = Some(o.response)
                      /\ t_failed' = IF InspectResponse(o.response).kind = "raise"
                                     THEN "text" ELSE ""
                      /\ t_ret' = Caught(InspectResponse(o.response))
    /\ t_pc' = "done"
    /\ UNCHANGED <<t_caller, messages, t_idx, searchVars, gatewayVars>>

\* lines 158-164: chat.send_message is given no timeout; the model does not
\* answer and the call, which never suspends, does not return
TurnHang ==
    /\ t_pc = "replay"
    /\ t_idx >= Len(messages)
    /\ messages # <<>>
    /\ t_sent' = Append(t_sent, [content |-> messages[Len(messages)].content,
                                 index |-> Len(messages)])
    /\ t_pc' = "hung"
    /\ UNCHANGED <<t_caller, messages, t_idx, t_response, t_failed, t_ret,
                   searchVars, gatewayVars>>

\* the direct caller has the reply and the locals of the call are gone
TurnDone ==
    /\ t_pc = "done"
    /\ t_caller = None
    /\ t_pc' = "idle"
    /\ messages' = <<>>
    /\ t_idx' = 1
    /\ t_sent' = <<>>
    /\ t_response' = None
    /\ t_failed' = ""
    /\ t_ret' = NoTurnReturn
    /\ UNCHANGED <<t_caller, searchVars, gatewayVars>>

TurnNext ==
    \/ TurnCall
    \/ TurnConstruct
    \/ TurnReplaySkip
    \/ TurnReplaySend
    \/ TurnFinal
    \/ TurnHang
    \/ TurnDone

SpecTurn == Init /\ [][TurnNext]_vars

(***************************************************************************)
(* Properties of the Turn Orchestrator.                                    *)
(***************************************************************************)
TurnReturned == t_pc = "done"
SearchProviderCalled == s_pc # "idle" \/ s_requests # <<>> \/ s_ret.kind # "none"

\* the model calls that submit the new (last) message or resubmit for it
NewMessageCalls ==
    Cardinality({i \in 1 .. Len(t_sent) : t_sent[i].index = Len(messages)})

LastIsUser == messages # <<>> /\ messages[Len(messages)].role = "user"

\* the capability invocations of the response to the new message
InvocationsOf(response) ==
    {i \in 1 .. Len(response.parts) : response.parts[i].kind = "function_call"}
Invokes(response, name) ==
    \E i \in InvocationsOf(response) : response.parts[i].name = name
FirstInvocation(response, name) ==
    response.parts[CHOOSE i \in InvocationsOf(response) :
                      /\ response.parts[i].name = name
                      /\ \A h \in InvocationsOf(response) :
                            response.parts[h].name = name => i <= h]

\* the Capability Registry of the specification and its validate
Registry == {get_location_func, search_web_func}
Valid(part) ==
    \E f \in Registry : f.name = part.name /\ f.required \subseteq DOMAIN part.args

\* the members of a serialized object as a function from key to value
Field(pairs, key) ==
    pairs[CHOOSE i \in 1 .. Len(pairs) : pairs[i][1] = key][2]
Keys(pairs) == {pairs[i][1] : i \in 1 .. Len(pairs)}
IsLocationRequestReply(str) ==
    /\ JsonLoads(str) # None
    /\ "type" \in Keys(Val(JsonLoads(str)))
    /\ Field(Val(JsonLoads(str)), "type") = "request_location"

\* C3: a turn whose new user message triggers no capability makes exactly
\* one model call and returns one reply, whatever the prior history.
C3_OneModelCall ==
    (TurnReturned /\ LastIsUser /\ t_response # None
       /\ InvocationsOf(Val(t_response)) = {} /\ t_failed = "")
    => Len(t_sent) = 1 /\ t_ret.kind = "return"

\* C4: a turn in which the model invokes search_web makes exactly two model
\* calls for the new message (initial and post-result) and exactly one call
\* of the Search Provider.
C4_SearchRoundTrip ==
    (TurnReturned /\ LastIsUser /\ t_response # None
       /\ Invokes(Val(t_response), "search_web")
       /\ ~Invokes(Val(t_response), "request_user_location"))
    => NewMessageCalls = 2 /\ SearchProviderCalled

\* C5: a turn in which the model invokes request_user_location never calls
\* the Search Provider, makes no model call after the invocation, and returns
\* a serialized object with exactly the fields type = "request_location",
\* reason and message, reason being the invocation's reason argument.
C5_LocationRequest ==
    (TurnReturned /\ t_response # None
       /\ Invokes(Val(t_response), "request_user_location"))
    => /\ ~SearchProviderCalled
       /\ NewMessageCalls = 1
       /\ t_sent[Len(t_sent)].index = Len(messages)
       /\ t_ret.kind = "return"
       /\ JsonLoads(t_ret.value) # None
       /\ LET obj == Val(JsonLoads(t_ret.value))
              call == FirstInvocation(Val(t_response), "request_user_location")
          IN  /\ Len(obj) = 3
              /\ Keys(obj) = {"type", "reason", "message"}
              /\ Field(obj, "type") = "request_location"
              /\ "reason" \in DOMAIN call.args => Field(obj, "reason") = call.args["reason"]

\* a location request whose reason holds quotes came back after a replayed
\* history
C5_Witness ==
    /\ TurnReturned
    /\ Len(messages) = 3
    /\ t_response # None
    /\ Val(t_response).parts = <<CallPart("request_user_location", ReasonArg("to reach \"home\""))>>
    /\ IsLocationRequestReply(t_ret.value)
    /\ Field(Val(JsonLoads(t_ret.value)), "reason") = "to reach \"home\""

\* C6: an invocation with an unknown name or a missing required argument is
\* not acted on: the reply of the turn is not a capability result.
C6_InvalidNotExecuted ==
    (TurnReturned /\ t_response # None
       /\ InvocationsOf(Val(t_response)) # {}
       /\ \A i \in InvocationsOf(Val(t_response)) : ~Valid(Val(t_response).parts[i]))
    => t_ret.kind = "return" /\ ~IsLocationRequestReply(t_ret.value)

ApologyPrefix == "I apologize, but I'm having trouble connecting right now."

\* C7: every call of get_chatbot_response returns a reply string; a failure
\* of model construction, of the replay, of the final model call or of
\* reading the text gives the apologetic reply and nothing is raised.
C7_AlwaysReplies ==
    TurnReturned =>
        /\ t_ret.kind = "return"
        /\ t_ret.value \in STRING
        /\ t_failed # "" => SubSeq(t_ret.value, 1, Len(ApologyPrefix)) = ApologyPrefix

\* the replay of a prior user message failed and the turn still replied
C7_Witness ==
    /\ TurnReturned
    /\ t_failed = "replay"
    /\ Len(messages) = 3
    /\ Len(t_sent) = 2
    /\ t_ret.kind = "return"

(***************************************************************************)
(* Properties of the Search Provider.                                      *)
(***************************************************************************)
SearchReturned == s_pc = "done"
BackendFailed == s_backend \in {"raise", "badjson", "nondict"}
LocationGiven == s_args.latitude # None /\ s_args.longitude # None
Max(a, b) == IF a > b THEN a ELSE b

\* C1: perform_web_search never returns an empty list, whatever the query,
\* max_results >= 0, the location and the backend outcome.
C1_NeverEmpty ==
    SearchReturned => s_ret.kind = "return" /\ Len(s_ret.value) >= 1

\* C2 as stated: the returned list never has more than max_results entries,
\* on every path, for every max_results >= 0.
C2_AtMostMaxResults ==
    SearchReturned => Len(s_ret.value) <= s_args.max_results

\* C2 amended: the returned list has at most max_results entries when
\* max_results >= 1, and at most one entry when max_results = 0.
C2_AtMostMaxResultsOrOne ==
    SearchReturned => Len(s_ret.value) <= Max(s_args.max_results, 1)

\* the backend delivered more usable entries than asked for and the list
\* was cut to max_results
C2_Witness ==
    /\ SearchReturned /\ s_backend = "ok"
    /\ s_args.max_results = 2
    /\ Truthy(data.Abstract)
    /\ Len(data.RelatedTopics) = 2
    /\ \A i \in 1 .. 2 : data.RelatedTopics[i].isdict /\ data.RelatedTopics[i].hasText
    /\ Len(s_ret.value) = 2

\* the query a request must carry, from the arguments and the geocoder outcome
ResolvedPlace == IF s_geo = None THEN None ELSE get_location_name(Val(s_geo))

\* C9: with a location the backend query is "<query> near <place>" when
\* reverse geocoding resolves a place and "<query> near <lat>,<lon>" when it
\* does not; without a complete location the query is issued unmodified.
C9_IssuedQuery ==
    /\ SearchReturned => Len(s_requests) >= 1
    /\ \A i \in 1 .. Len(s_requests) :
         /\ ~LocationGiven => s_requests[i].q = s_args.query
         /\ LocationGiven =>
              /\ s_geo # None
              /\ ResolvedPlace # None =>
                    s_requests[i].q = s_args.query \o " near " \o Val(ResolvedPlace)
              /\ ResolvedPlace = None =>
                    s_requests[i].q = s_args.query \o " near "
                        \o FloatStr(Val(s_args.latitude)) \o "," \o FloatStr(Val(s_args.longitude))
         /\ (LocationGiven /\ s_args.query = "food banks" /\ s_geo # None
               /\ Val(s_geo).kind = "http" /\ Val(s_geo).status = 200
               /\ Val(s_geo).address.city = "Springfield" /\ Val(s_geo).address.state = "IL")
              => s_requests[i].q = "food banks near Springfield, IL"
         /\ (s_args.query = "food banks" /\ s_args.latitude = Some(0)
               /\ s_args.longitude = Some(-117) /\ s_geo # None /\ Val(s_geo).kind = "raise")
              => s_requests[i].q = "food banks near 0.0,-117.0"

\* both backend requests went out with the coordinates 0.0,-117.0 resolved
\* to Springfield, IL
C9_Witness ==
    /\ SearchReturned
    /\ s_args.query = "food banks"
    /\ s_args.latitude = Some(0) /\ s_args.longitude = Some(-117)
    /\ ResolvedPlace = Some("Springfield, IL")
    /\ Len(s_requests) = 2
    /\ s_requests[2].q = "food banks near Springfield, IL"

The211Entry ==
    [title |-> "Search Unavailable",
     snippet |-> "Unable to search at this time. Try: Call 211 for local resources, or visit https://www.211.org",
     url |-> "https://www.211.org"]

\* C10: when a search-backend call fails (network or parse failure) the call
\* returns exactly the one fixed 211 entry, the same for every query and
\* failure, and raises nothing.
C10_FixedFallback ==
    (SearchReturned /\ BackendFailed) =>
        s_ret = [kind |-> "return", value |-> <<The211Entry>>]

\* a located search for shelters whose instant-answer body did not parse
C10_Witness ==
    /\ SearchReturned
    /\ s_backend = "badjson"
    /\ s_args.query = "shelters"
    /\ LocationGiven
    /\ Len(s_requests) = 2
    /\ s_ret.value = <<The211Entry>>

(***************************************************************************)
(* main.py: the conversation routes and websocket_endpoint.  A step of a   *)
(* task runs from one await that leaves the event loop to the next;        *)
(* get_chatbot_response and generate_conversation_report never suspend, so *)
(* no other task runs while a turn is in progress (t_pc # "idle").         *)
(***************************************************************************)
Reports == {"Summary of the situation"}

MessagesOfAny(c) == db_messages

MessagesOf(c) == SelectSeq(db_messages, LAMBDA m : m.conversation_id = c)

\* [{"role": msg.role, "content": msg.content} for msg in messages]
MessageList(rows) == [i \in 1 .. Len(rows) |-> [role |-> rows[i].role, content |-> rows[i].content]]

PersistFirst(c, role, content) ==
    <<[conversation_id |-> c, role |-> role, content |-> content]>> \o db_messages

\* db.add(Message(...)); db.commit()
Persist(c, role, content) ==
    Append(db_messages, [conversation_id |-> c, role |-> role, content |-> content])

EventLoopFree == t_pc = "idle"

\* POST /conversation/start for an existing user: the next id is created
start_conversation ==
    /\ EventLoopFree
    /\ \E c \in ConvIds :
         /\ ~conversations[c].exists
         /\ \A d \in ConvIds : d < c => conversations[d].exists
         /\ conversations' = [conversations EXCEPT ![c] = [NoRow EXCEPT !.exists = TRUE]]
    /\ UNCHANGED <<db_messages, now, ws, searchVars, turnVars>>

end_conversation_report_first ==
    /\ EventLoopFree
    /\ now < MaxClock
    /\ \E c \in ConvIds, report \in Reports :
         /\ conversations[c].exists
         /\ now' = now + 1
         /\ \/ conversations' = [conversations EXCEPT ![c].report = Some(report)]
            \/ conversations' = [conversations EXCEPT ![c].ended_at = Some(now + 1),
                                                      ![c].report = Some(report)]
    /\ UNCHANGED <<db_messages, ws, searchVars, turnVars>>

\* POST /conversation/{id}/end on an existing conversation
end_conversation ==
    /\ EventLoopFree
    /\ now < MaxClock
    /\ \E c \in ConvIds, report \in Reports :
         /\ conversations[c].exists
         /\ now' = now + 1
         /\ conversations' = [conversations EXCEPT ![c].ended_at = Some(now + 1),
                                                   ![c].report = Some(report)]
    /\ UNCHANGED <<db_messages, ws, searchVars, turnVars>>

\* what websocket.send_json raises once the client has gone away:
\* WebSocketDisconnect, or the server's connection-closed error, by the
\* version of the ASGI stack
SendFailures == {"WebSocketDisconnect", "ConnectionClosedOK"}

\* what the commit of line 387 raises when the store refuses the write
ReceiveErrors == {"database is locked"}

\* websocket_endpoint is left and the channel is closed: the task's locals and
\* the client's end are gone; what stays is the payload the close came with
Closed(sock, last) == [NoSocket EXCEPT !.outbox = last]

\* lines 415-419: the two except clauses.  send_json of line 419 is outside
\* every try, so what it raises leaves websocket_endpoint
ExceptHandlers(sock, e) ==
    IF e = "WebSocketDisconnect"
    THEN Closed(sock, <<>>)
    ELSE IF sock.connected
         THEN Closed(sock, <<[error |-> e]>>)
         ELSE [Closed(sock, <<>>) EXCEPT !.unhandled = TRUE]

\* line 359: a client opens /ws/{conversation_id} and the task accepts
WsAccept ==
    /\ EventLoopFree
    /\ \E w \in Sockets, c \in ConvIds :
         /\ ws[w].pc = "closed"
         /\ ws' = [ws EXCEPT ![w] = [NoSocket EXCEPT !.pc = "accepted", !.conversation_id = c,
                                                     !.connected = TRUE]]
    /\ UNCHANGED <<conversations, db_messages, now, searchVars, turnVars>>

\* the client goes away; the task notices at its next receive or send
ClientDisconnect ==
    /\ \E w \in Sockets :
         /\ ws[w].pc # "closed"
         /\ ws[w].connected
         /\ ws' = [ws EXCEPT ![w].connected = FALSE, ![w].outbox = <<>>]
    /\ UNCHANGED <<conversations, db_messages, now, searchVars, turnVars>>

\* lines 361-371: the conversation is looked up and its history loaded, or
\* the error is sent and the channel closed
WsOpen ==
    /\ EventLoopFree
    /\ \E w \in Sockets :
         /\ ws[w].pc = "accepted"
         /\ IF conversations[ws[w].conversation_id].exists
            THEN ws' = [ws EXCEPT ![w].pc = "receiving",
                                  ![w].message_history =
                                      MessageList(MessagesOf(ws[w].conversation_id))]
            ELSE IF ws[w].connected
                 THEN ws' = [ws EXCEPT ![w] =
                                Closed(ws[w], <<[error |-> "Conversation not found"]>>)]
                 ELSE \E e \in SendFailures :
                         ws' = [ws EXCEPT ![w] = ExceptHandlers(ws[w], e)]
    /\ UNCHANGED <<conversations, db_messages, now, searchVars, turnVars>>

\* lines 375-393: a payload arrives, the user Message is committed and the
\* turn is entered with the task's message_history
WsReceive ==
    /\ EventLoopFree
    /\ Len(db_messages) + 2 <= MaxStored
    /\ \E w \in Sockets, user_message \in Payloads :
         /\ ws[w].pc = "receiving"
         /\ ws[w].connected
         /\ db_messages' = Persist(ws[w].conversation_id, "user", user_message)
         /\ ws' = [ws EXCEPT ![w].pc = "turn",
                             ![w].received = Append(@, user_message),
                             ![w].message_history =
                                 Append(@, [role |-> "user", content |-> user_message])]
         /\ messages' = Append(ws[w].message_history, [role |-> "user", content |-> user_message])
         /\ t_caller' = Some(w)
    /\ t_pc' = "construct"
    /\ t_idx' = 1
    /\ t_sent' = <<>>
    /\ t_response' = None
    /\ t_failed' = ""
    /\ t_ret' = NoTurnReturn
    /\ UNCHANGED <<conversations, now, searchVars>>

\* lines 375-387, 417-419: a payload arrives (the client may have gone away
\* since it sent it) and the commit of the user Message fails; nothing is
\* persisted
WsReceiveRaise ==
    /\ EventLoopFree
    /\ \E w \in Sockets, e \in ReceiveErrors :
         /\ ws[w].pc = "receiving"
         /\ ws' = [ws EXCEPT ![w] = ExceptHandlers(ws[w], e)]
    /\ UNCHANGED <<conversations, db_messages, now, searchVars, turnVars>>

\* a handler that drops the reply of a turn whose client has gone away
WsReplyDropped ==
    /\ t_pc = "done"
    /\ t_caller # None
    /\ t_ret.kind = "return"
    /\ LET w == Val(t_caller)
       IN  IF ws[w].connected
           THEN /\ db_messages' = Persist(ws[w].conversation_id, "assistant", t_ret.value)
                /\ ws' = [ws EXCEPT ![w].pc = "sending",
                                    ![w].assistant_response = t_ret.value,
                                    ![w].message_history =
                                        Append(@, [role |-> "assistant", content |-> t_ret.value])]
           ELSE /\ db_messages' = db_messages
                /\ ws' = [ws EXCEPT ![w] = Closed(ws[w], <<>>)]
    /\ t_pc' = "idle"
    /\ t_caller' = None
    /\ messages' = <<>>
    /\ t_idx' = 1
    /\ t_sent' = <<>>
    /\ t_response' = None
    /\ t_failed' = ""
    /\ t_ret' = NoTurnReturn
    /\ UNCHANGED <<conversations, now, searchVars>>

\* lines 393-406: the turn has returned; the assistant Message is committed
WsReply ==
    /\ t_pc = "done"
    /\ t_caller # None
    /\ t_ret.kind = "return"
    /\ LET w == Val(t_caller)
       IN  /\ db_messages' = Persist(ws[w].conversation_id, "assistant", t_ret.value)
           /\ ws' = [ws EXCEPT ![w].pc = "sending",
                               ![w].assistant_response = t_ret.value,
                               ![w].message_history =
                                   Append(@, [role |-> "assistant", content |-> t_ret.value])]
    /\ t_pc' = "idle"
    /\ t_caller' = None
    /\ messages' = <<>>
    /\ t_idx' = 1
    /\ t_sent' = <<>>
    /\ t_response' = None
    /\ t_failed' = ""
    /\ t_ret' = NoTurnReturn
    /\ UNCHANGED <<conversations, now, searchVars>>

\* lines 409-413: the reply is sent to the client, or send_json raises
\* because the client has gone away
WsSend ==
    /\ EventLoopFree
    /\ \E w \in Sockets :
         /\ ws[w].pc = "sending"
         /\ IF ws[w].connected
            THEN ws' = [ws EXCEPT ![w].pc = "receiving",
                                  ![w].outbox = Append(@, [role |-> "assistant",
                                                           content |-> ws[w].assistant_response])]
            ELSE \E e \in SendFailures :
                    ws' = [ws EXCEPT ![w] = ExceptHandlers(ws[w], e)]
    /\ UNCHANGED <<conversations, db_messages, now, searchVars, turnVars>>

\* lines 375, 415-416: receive_json raises WebSocketDisconnect
WsDisconnect ==
    /\ EventLoopFree
    /\ \E w \in Sockets :
         /\ ws[w].pc = "receiving"
         /\ ~ws[w].connected
         /\ ws' = [ws EXCEPT ![w] = ExceptHandlers(ws[w], "WebSocketDisconnect")]
    /\ UNCHANGED <<conversations, db_messages, now, searchVars, turnVars>>

Next ==
    \/ start_conversation
    \/ end_conversation
    \/ WsAccept
    \/ ClientDisconnect
    \/ WsOpen
    \/ WsReceive
    \/ WsReceiveRaise
    \/ TurnConstruct
    \/ TurnReplaySkip
    \/ TurnReplaySend
    \/ TurnFinal
    \/ TurnHang
    \/ WsReply
    \/ WsSend
    \/ WsDisconnect

Spec == Init /\ [][Next]_vars

\* the event loop runs every task that is ready: a step of websocket_endpoint,
\* or of the turn it awaits, that can be taken is taken.  Nothing is assumed
\* of the clients, nor of the model: its call is made, it answers or not
SpecFair ==
    /\ Spec
    /\ WF_vars(WsOpen)
    /\ WF_vars(TurnConstruct)
    /\ WF_vars(TurnReplaySkip)
    /\ WF_vars(TurnReplaySend)
    /\ WF_vars(TurnFinal \/ TurnHang)
    /\ WF_vars(WsReply)
    /\ WF_vars(WsSend)
    /\ WF_vars(WsDisconnect)

(***************************************************************************)
(* Properties of the conversation store.                                   *)
(***************************************************************************)
Ended(c) == conversations[c].ended_at # None

\* C8: once ended_at of a conversation is set no Message of that
\* conversation is persisted any more.
C8_NoAppendAfterEnd ==
    [][\A c \in ConvIds : Ended(c) => MessagesOf(c)' = MessagesOf(c)]_vars

(***************************************************************************)
(* Properties of the Session Gateway.                                      *)
(***************************************************************************)
\* the channel of task w serves its conversation: the lookup succeeded, the
\* handler has not been left and the client is there
Active(w) == ws[w].pc \in {"receiving", "turn", "sending"} /\ ws[w].connected

\* C11: a conversation id has at most one active channel: no two tasks serve
\* the same conversation id at the same time.
C11_OneChannelPerConversation ==
    \A w1, w2 \in Sockets :
        (w1 # w2 /\ Active(w1) /\ Active(w2)) =>
            ws[w1].conversation_id # ws[w2].conversation_id

RECURSIVE IsSubseq(_, _)
\* a is b with some elements left out
IsSubseq(a, b) ==
    IF a = <<>> THEN TRUE
    ELSE IF b = <<>> THEN FALSE
    ELSE IF Head(a) = Head(b) THEN IsSubseq(Tail(a), Tail(b))
    ELSE IsSubseq(a, Tail(b))

InLoop(w) == ws[w].pc \in {"receiving", "turn", "sending"}

\* the messages task w has itself put on its message_history: two for every
\* payload it received, less the assistant message of the turn in progress
OwnCount(w) == 2 * Len(ws[w].received) - (IF ws[w].pc = "turn" THEN 1 ELSE 0)
Own(w) ==
    SubSeq(ws[w].message_history,
           Len(ws[w].message_history) - OwnCount(w) + 1, Len(ws[w].message_history))

\* the replies due to the client of task w before the next receive
Answered(w) == Len(ws[w].received) - (IF ws[w].pc = "receiving" THEN 0 ELSE 1)

\* C12: a channel processes its messages one at a time and in order: user
\* Message persisted, one turn, assistant Message persisted, reply delivered.
\* When the task waits for the next payload every payload it received has its
\* reply persisted and delivered, and the channel's Messages are persisted in
\* the order of arrival.
C12_Sequential ==
    \A w \in Sockets : InLoop(w) =>
        /\ OwnCount(w) <= Len(ws[w].message_history)
        /\ \A i \in 1 .. OwnCount(w) :
              Own(w)[i].role = (IF i % 2 = 1 THEN "user" ELSE "assistant")
        /\ \A i \in 1 .. Len(ws[w].received) :
              Own(w)[2 * i - 1].content = ws[w].received[i]
        /\ IsSubseq(Own(w), MessageList(MessagesOf(ws[w].conversation_id)))
        /\ ws[w].pc = "turn" =>
              /\ t_caller = Some(w)
              /\ messages = ws[w].message_history
              /\ db_messages[Len(db_messages)] =
                    [conversation_id |-> ws[w].conversation_id, role |-> "user",
                     content |-> ws[w].received[Len(ws[w].received)]]
        /\ ws[w].pc = "sending" =>
              Own(w)[OwnCount(w)].content = ws[w].assistant_response
        /\ ws[w].connected =>
              /\ Len(ws[w].outbox) = Answered(w)
              /\ \A i \in 1 .. Answered(w) :
                    ws[w].outbox[i] =
                        [role |-> "assistant", content |-> Own(w)[2 * i].content]

\* a channel that got two different replies to its two payloads and waits for
\* a third
C12_Witness ==
    \E w \in Sockets :
        /\ ws[w].pc = "receiving"
        /\ ws[w].connected
        /\ Len(ws[w].received) = 2
        /\ Len(ws[w].outbox) = 2
        /\ ws[w].outbox[1] # ws[w].outbox[2]

\* the Message rows that carry conversation id c, as {role, content}
RowsOf(c) ==
    MessageList(SelectSeq(db_messages, LAMBDA row : row.conversation_id = c))

\* the task whose step persists a Message: the one that enters or leaves a turn
PersistingTask == IF t_caller # None THEN Val(t_caller) ELSE Val(t_caller')

\* C13: channels of different conversations are isolated: the history a
\* channel of conversation A keeps and passes to a turn is made of Messages
\* of A only, and every Message a channel of A persists carries id A.
C13_Isolated ==
    /\ [](\A w \in Sockets : InLoop(w) =>
             /\ IsSubseq(ws[w].message_history, RowsOf(ws[w].conversation_id))
             /\ t_caller = Some(w) => IsSubseq(messages, RowsOf(ws[w].conversation_id)))
    /\ [][db_messages' # db_messages =>
             /\ Len(db_messages') = Len(db_messages) + 1
             /\ SubSeq(db_messages', 1, Len(db_messages)) = db_messages
             /\ db_messages'[Len(db_messages')].conversation_id =
                    ws[PersistingTask].conversation_id]_vars

\* a turn of conversation 1 in progress on one channel while the other
\* channel has had its payload for conversation 2 answered
C13_Witness ==
    \E w, v \in Sockets :
        /\ t_caller = Some(w)
        /\ t_pc = "done"
        /\ ws[w].conversation_id = 1
        /\ Active(v)
        /\ ws[v].conversation_id = 2
        /\ Len(ws[v].outbox) = 1
        /\ RowsOf(2) # <<>>
        /\ messages # <<>>

\* C14: a client that goes away while its turn is in flight cancels the
\* turn: from then on no Message is persisted for that turn.
C14_DisconnectCancels ==
    [][\A w \in Sockets :
          (ws[w].pc = "turn" /\ ~ws[w].connected) => db_messages' = db_messages]_vars

\* C15: whatever fails on a channel (conversation missing, store write,
\* send), no exception leaves websocket_endpoint.
C15_NoUnhandled == \A w \in Sockets : ~ws[w].unhandled

\* C16: a payload received on a channel that stays connected is eventually
\* answered: the turn it started ends and its reply is delivered, whatever
\* the model does.
C16_EventuallyAnswered ==
    \A w \in Sockets :
        (ws[w].pc = "turn") ~> (ws[w].pc = "receiving" \/ ~ws[w].connected)

\* C17: a conversation is ended once: after ended_at is set no step changes
\* it, a second end_conversation included.
C17_EndedOnce ==
    [][\A c \in ConvIds :
          Ended(c) => conversations'[c].ended_at = conversations[c].ended_at]_vars

\* C18: a conversation that has a report has ended_at set: end_conversation
\* writes both in one commit and nothing else writes report.
C18_ReportImpliesEnded ==
    /\ [](\A c \in ConvIds : conversations[c].report # None => Ended(c))
    /\ [][\A c \in ConvIds :
             conversations'[c].report # conversations[c].report =>
                 /\ conversations[c].exists
                 /\ conversations'[c].report \in {Some(r) : r \in Reports}
                 /\ conversations'[c].ended_at = Some(now')
                 /\ db_messages' = db_messages /\ ws' = ws]_vars

\* a conversation with an answered payload that was ended and got its report
C18_Witness ==
    \E c \in ConvIds :
        /\ conversations[c].report = Some("Summary of the situation")
        /\ conversations[c].ended_at = Some(1)
        /\ Len(MessagesOf(c)) = 2
        /\ \E w \in Sockets : Active(w) /\ ws[w].conversation_id = c

\* C19: a turn started by the websocket handler runs with the full history
\* of its conversation: the list passed is the list of the Messages persisted
\* for the conversation at that moment.
C19_FullHistory ==
    \A w \in Sockets :
        (t_caller = Some(w) /\ t_pc # "idle") =>
            messages = MessageList(MessagesOf(ws[w].conversation_id))

(***************************************************************************)
(* The inputs of the model session.                                        *)
(***************************************************************************)
UserIndices == {i \in 1 .. Len(messages) : messages[i].role = "user"}
SentIndices == {t_sent[i].index : i \in 1 .. Len(t_sent)}

\* the inputs are messages of the list, submitted in list order
SentInOrder ==
    /\ \A i \in 1 .. Len(t_sent) :
          /\ t_sent[i].index \in 1 .. Len(messages)
          /\ t_sent[i].content = messages[t_sent[i].index].content
    /\ \A i, j \in 1 .. Len(t_sent) : i < j => t_sent[i].index < t_sent[j].index

\* C20: every input submitted to the model session is a user-role message:
\* when a turn has returned with no call failed, the inputs are exactly the
\* user-role messages of the list, in list order, the new message last.
C20_OnlyUserInputs ==
    (TurnReturned /\ t_failed = "" /\ messages # <<>>) =>
        /\ SentInOrder
        /\ SentIndices = UserIndices
        /\ t_sent[Len(t_sent)].index = Len(messages)

\* C20 as it holds: for a list whose last message is a user message, every
\* input is a user-role message of the list, in list order and at most once;
\* unless constructing the session or a replayed call failed, all user-role
\* messages are submitted and the new message is submitted last.
C20_OnlyUserInputsOfUserTurn ==
    LastIsUser =>
        /\ SentInOrder
        /\ SentIndices \subseteq UserIndices
        /\ (TurnReturned /\ t_failed \notin {"construct", "replay"}) =>
              /\ SentIndices = UserIndices
              /\ t_sent[Len(t_sent)].index = Len(messages)

\* a turn that answered a list of user, assistant, user with two inputs
C20_Witness ==
    /\ TurnReturned
    /\ t_failed = ""
    /\ Len(messages) = 3
    /\ messages[2].role = "assistant"
    /\ LastIsUser
    /\ Len(t_sent) = 2
    /\ t_sent[1].index = 1
    /\ t_sent[2].index = 3

(***************************************************************************)
(* Further properties of the Search Provider.                              *)
(***************************************************************************)
GeocodingUnavailable == s_geo # None /\ Val(s_geo).kind = "raise"

\* C21: with a location given, when the reverse-geocoding request itself
\* raises, the search requests carry the unmodified query.
C21_UnmodifiedWhenUnavailable ==
    (LocationGiven /\ GeocodingUnavailable) =>
        \A i \in 1 .. Len(s_requests) : s_requests[i].q = s_args.query

(***************************************************************************)
(* Further properties of the Turn Orchestrator.                            *)
(***************************************************************************)
ModelCallFailed == t_failed \in {"replay", "final"}

\* C22: the reply of a turn whose model call failed is one fixed string: it
\* is the reply the turn would give for every other failure as well, and the
\* failed call was made once.
C22_OneFixedFallbackReply ==
    (TurnReturned /\ ModelCallFailed) =>
        /\ \A e \in ModelErrors : t_ret.value = TurnExcept(e).value
        /\ Cardinality({i \in 1 .. Len(t_sent) :
                           t_sent[i].index = t_sent[Len(t_sent)].index}) = 1

(***************************************************************************)
(* The result list of the Search Provider.                                 *)
(***************************************************************************)
Min(a, b) == IF a < b THEN a ELSE b

\* the related topics with a text among the first n of the document
UsableWithin(doc, n) ==
    {i \in 1 .. Min(n, Len(doc.RelatedTopics)) :
        doc.RelatedTopics[i].isdict /\ doc.RelatedTopics[i].hasText}

\* the j-th smallest member of a set of indices
NthOf(S, j) == CHOOSE i \in S : Cardinality({h \in S : h < i}) = j - 1

\* the snippets of the abstract (when there is one) and then of the related
\* topics U, in the order of the document
OrderedSnippets(doc, U) ==
    LET a == IF doc.Abstract # "" THEN 1 ELSE 0
    IN  [j \in 1 .. a + Cardinality(U) |->
            IF j <= a THEN doc.Abstract ELSE doc.RelatedTopics[NthOf(U, j - a)].Text]

Snippets(results) == [i \in 1 .. Len(results) |-> results[i].snippet]

\* C23: when the backend answer has an abstract the result list is the
\* abstract, then the related topics that have a text, in backend order, the
\* whole cut to max_results.
C23_AbstractThenTopics ==
    (SearchReturned /\ s_backend = "ok" /\ data.Abstract # "") =>
        Snippets(s_ret.value) =
            Take(OrderedSnippets(data, UsableWithin(data, Len(data.RelatedTopics))),
                 s_args.max_results)

\* C23 as it holds: only the first max_results related topics are looked at,
\* with or without a text; the result list is the abstract (when there is
\* one), then those of these topics that have a text, in backend order, the
\* whole cut to max_results.
C23_AbstractThenFirstTopics ==
    (SearchReturned /\ s_backend = "ok"
       /\ (data.Abstract # "" \/ UsableWithin(data, s_args.max_results) # {})) =>
        Snippets(s_ret.value) =
            Take(OrderedSnippets(data, UsableWithin(data, s_args.max_results)),
                 s_args.max_results)

\* an abstract and two topics with a text, cut to the abstract and the first
\* topic
C23_Witness ==
    /\ SearchReturned /\ s_backend = "ok"
    /\ s_args.max_results = 2
    /\ data.Abstract = "About shelters"
    /\ Len(data.RelatedTopics) = 2
    /\ data.RelatedTopics[1].Text = "Food pantry"
    /\ data.RelatedTopics[2].Text = "Shelter A - beds"
    /\ Snippets(s_ret.value) = <<"About shelters", "Food pantry">>

\* the query the search was issued with
EffectiveQuery == s_requests[Len(s_requests)].q

NoUsableTopic == UsableWithin(data, Len(data.RelatedTopics)) = {}

\* C24: when the backend answer has no abstract and no related topic with a
\* text, the call returns exactly one placeholder result: its snippet holds
\* the effective (location-rewritten) query and its url is the backend's
\* search page for that query, percent-encoded.
C24_Placeholder ==
    (SearchReturned /\ s_backend = "ok" /\ data.Abstract = "" /\ NoUsableTopic) =>
        /\ s_ret.kind = "return"
        /\ Len(s_ret.value) = 1
        /\ s_ret.value[1].title = "Search Info"
        /\ Contains(s_ret.value[1].snippet, "Search query: " \o EffectiveQuery \o ".")
        /\ s_ret.value[1].url = "https://duckduckgo.com/?q=" \o Quote(EffectiveQuery)
        /\ (s_args.query = "shelters" /\ ResolvedPlace = Some("Springfield, IL")
              /\ LocationGiven) =>
              s_ret.value[1].url = "https://duckduckgo.com/?q=shelters%20near%20Springfield%2C%20IL"
        /\ ~LocationGiven => EffectiveQuery = s_args.query
        /\ LocationGiven => EffectiveQuery # s_args.query

\* a located search for shelters whose answer has only a topic group
C24_Witness ==
    /\ SearchReturned /\ s_backend = "ok"
    /\ data.Abstract = ""
    /\ Len(data.RelatedTopics) = 1
    /\ ~data.RelatedTopics[1].hasText
    /\ s_args.query = "shelters"
    /\ s_args.max_results = 2
    /\ ResolvedPlace = Some("Springfield, IL")
    /\ LocationGiven
    /\ Len(s_ret.value) = 1
    /\ s_ret.value[1].url = "https://duckduckgo.com/?q=shelters%20near%20Springfield%2C%20IL"

(***************************************************************************)
(* The turn of an empty message list.                                      *)
(***************************************************************************)
\* C26: called with an empty message list, get_chatbot_response makes no
\* model call and returns the fixed greeting.
C26_EmptyListGreets ==
    (TurnReturned /\ messages = <<>>) =>
        /\ t_sent = <<>>
        /\ t_ret = Returned("Hello! I'm here to help. How can I assist you today?")

\* C26 as it holds: no model call is made; the greeting is returned when the
\* model session could be constructed, and the apologetic reply with the
\* error text when its construction raised.
C26_EmptyListGreetsOrApologizes ==
    (TurnReturned /\ messages = <<>>) =>
        /\ t_sent = <<>>
        /\ t_response = None
        /\ t_ret.kind = "return"
        /\ t_failed \in {"", "construct"}
        /\ t_failed = "" =>
              t_ret.value = "Hello! I'm here to help. How can I assist you today?"
        /\ t_failed = "construct" =>
              /\ SubSeq(t_ret.value, 1, Len(ApologyPrefix)) = ApologyPrefix
              /\ \E e \in ConstructOutcomes :
                    e # "" /\ t_ret.value = ApologyPrefix \o " Error: " \o e

\* the turn of an empty list that returned the greeting
C26_Witness ==
    /\ TurnReturned
    /\ messages = <<>>
    /\ t_failed = ""
    /\ t_sent = <<>>
    /\ t_ret.value = Greeting

(***************************************************************************)
(* The Messages of a conversation.                                         *)
(***************************************************************************)
RolesOf(c) == [i \in 1 .. Len(MessagesOf(c)) |-> MessagesOf(c)[i].role]
CountOf(c, role) == Cardinality({i \in 1 .. Len(RolesOf(c)) : RolesOf(c)[i] = role})

\* a turn of conversation c is in progress
TurnOf(c) ==
    /\ t_pc # "idle"
    /\ t_caller # None
    /\ ws[Val(t_caller)].conversation_id = c

====
